---------------------------- MODULE Spec2Model ----------------------------
(***************************************************************************)
(* A model of utility_functions.py (logistic classification helpers):      *)
(* load_data, scale_data, gradient_descent, predict, get_confusion_matrix  *)
(* and print_performance_metrics.  Each function is a small state machine  *)
(* with its own specification; the variables of the other functions stay   *)
(* at their idle values.                                                   *)
(***************************************************************************)
EXTENDS Integers, Sequences, FiniteSets, Bags, TLC

VARIABLES
    \* ---- load_data
    ld_pc,              \* "call" | "print" | "returned" | "raised"
    file_rows,          \* the rows np.genfromtxt read (header skipped)
    split, flag, includes_y,
    data,               \* the rows after np.random.shuffle
    x_training_data, y_training_data, x_testing_data, y_testing_data,
    ld_i,               \* the print loop's index
    stdout              \* the rows printed so far

ldVars == <<ld_pc, file_rows, split, flag, includes_y, data, x_training_data,
            y_training_data, x_testing_data, y_testing_data, ld_i, stdout>>

VARIABLES
    \* ---- get_confusion_matrix
    cm_pc,              \* "loop" | "returned" | "raised"
    predictions, y,     \* the two arguments
    cm_i,               \* the loop's index
    matrix,             \* [tp, tn, fp, fn]
    \* ---- print_performance_metrics
    pm_pc,              \* the line about to run, "returned" or "raised"
    accuracy, precision, recall, specificity, f1,
    pm_out              \* what was printed

evVars == <<cm_pc, predictions, y, cm_i, matrix, pm_pc, accuracy, precision,
            recall, specificity, f1, pm_out>>

VARIABLES
    \* ---- gradient_descent
    gd_pc,              \* "call" | "iterating" | "converged"
    gd_x, gd_y,         \* the arguments x and y; x is rebound by line 174
    heap,               \* the arrays of weights alive, by object identity
    caller_w,           \* the object the caller passed as w
    w,                  \* the object the local name w is bound to
    learning_rate, stopping_criteria,
    hypothesis, gradient, l2,   \* the locals of the last iteration
    gd_iter,            \* iterations completed
    gd_ret              \* the object returned, 0 before the return

gdVars == <<gd_pc, gd_x, gd_y, heap, caller_w, w, learning_rate,
            stopping_criteria, hypothesis, gradient, l2, gd_iter, gd_ret>>

VARIABLES
    \* ---- scale_data: a fitting call, then a transforming call
    sc_pc,              \* "fit" | "transform" | "done"
    train_data,         \* the data of the fitting call
    fit_result,         \* what the fitting call returned
    test_data,          \* the data of the transforming call
    mean_arg, std_arg,  \* its mean and std arguments
    transform_result    \* what it returned, or that it raised

scVars == <<sc_pc, train_data, fit_result, test_data, mean_arg, std_arg,
            transform_result>>

VARIABLES
    \* ---- predict
    pr_pc,              \* "call" | "threshold" | "returned"
    pr_x, pr_w,         \* the arguments x and w
    probabilities,      \* the array line 204 computes
    pr_i,               \* the index of the loop of lines 206-210
    pr_labels           \* the entries that loop has overwritten so far

prVars == <<pr_pc, pr_x, pr_w, probabilities, pr_i, pr_labels>>

vars == <<ldVars, evVars, gdVars, scVars, prVars>>

notLoad == <<evVars, gdVars, scVars, prVars>>
notEval == <<ldVars, gdVars, scVars, prVars>>
notGd == <<ldVars, evVars, scVars, prVars>>
notScale == <<ldVars, evVars, gdVars, prVars>>
notPredict == <<ldVars, evVars, gdVars, scVars>>

(***************************************************************************)
(* Bounds of the model.                                                    *)
(***************************************************************************)
MaxRows == 3          \* rows of a data set whose contents are enumerated
MaxCountRows == 50    \* rows of a data set of which only the size matters
MaxLen == 4           \* entries of a sequence of predictions or labels
MaxTrainRows == 2     \* rows of a training set
MaxIter == 5          \* iterations of gradient descent that are explored
MaxScaleRows == 2     \* rows of a matrix that is scaled
MaxTestRows == 2      \* rows of a matrix that is classified

(***************************************************************************)
(* Helpers on sequences.                                                   *)
(***************************************************************************)
Front(s) == SubSeq(s, 1, Len(s) - 1)
Last(s) == s[Len(s)]
Min(a, b) == IF a < b THEN a ELSE b

\* Python's s[:k] and s[k:] for 0 <= k (the slice is clipped to the length).
SliceTo(s, k) == SubSeq(s, 1, Min(k, Len(s)))
SliceFrom(s, k) == SubSeq(s, Min(k, Len(s)) + 1, Len(s))

Perms(n) == {p \in [1..n -> 1..n] : \A a, b \in 1..n : p[a] = p[b] => a = b}
\* two of the permutations: the identity and the reversal
Reversals(n) == {[i \in 1..n |-> i], [i \in 1..n |-> n + 1 - i]}
Permute(s, p) == [i \in 1..Len(s) |-> s[p[i]]]

(***************************************************************************)
(* IEEE-754 binary64 arithmetic, as far as line 39 needs it:               *)
(*     math.floor(len(data) * (split / 100))                               *)
(* A positive double is [m |-> bits, e |-> exponent]: bits is the 53-bit   *)
(* significand, most significant bit first and equal to 1, and the value   *)
(* is bits * 2^e.  Zero has no bits.  Every operation rounds to nearest,   *)
(* ties to even.                                                           *)
(***************************************************************************)
Precision == 53
FloatZero == [m |-> <<>>, e |-> 0]
IsZero(q) == q.m = <<>>

RECURSIVE Pow2(_)
Pow2(n) == IF n = 0 THEN 1 ELSE 2 * Pow2(n - 1)

RECURSIVE Pow2Mod(_, _)
\* 2^i mod d, by repeated squaring (d * d stays far below 2^31)
Pow2Mod(i, d) ==
    IF i = 0 THEN 1 % d
    ELSE LET h == Pow2Mod(i \div 2, d)
         IN  IF i % 2 = 0 THEN (h * h) % d ELSE (2 * h * h) % d

\* the binary numeral of v in width bits, for 0 <= v < 2^width
FixedBits(v, width) == [i \in 1..width |-> (v \div Pow2(width - i)) % 2]

RECURSIVE BitsToInt(_)
BitsToInt(b) == IF b = <<>> THEN 0 ELSE 2 * BitsToInt(Front(b)) + Last(b)

\* b without its leading zeros
StripZeros(b) ==
    IF \A i \in 1..Len(b) : b[i] = 0 THEN <<>>
    ELSE LET first == CHOOSE i \in 1..Len(b) :
                          b[i] = 1 /\ \A j \in 1..(i - 1) : b[j] = 0
         IN  SubSeq(b, first, Len(b))

\* b + 1, one bit longer when every bit of b is 1
IncBits(b) ==
    IF \A i \in 1..Len(b) : b[i] = 1
    THEN <<1>> \o [i \in 1..Len(b) |-> 0]
    ELSE LET z == CHOOSE i \in 1..Len(b) :
                      b[i] = 0 /\ \A j \in (i + 1)..Len(b) : b[j] = 1
         IN  [i \in 1..Len(b) |-> IF i < z THEN b[i] ELSE IF i = z THEN 1 ELSE 0]

\* Round the exact value bits * 2^e (+ something below the last bit when
\* sticky) to a double.  bits starts with 1 and has at least Precision bits.
RoundToDouble(bits, sticky, e) ==
    LET drop == Len(bits) - Precision
        kept == SubSeq(bits, 1, Precision)
        tail == SubSeq(bits, Precision + 1, Len(bits))
        guard == IF drop = 0 THEN 0 ELSE tail[1]
        rest == sticky \/ \E k \in 2..drop : tail[k] = 1
        up == guard = 1 /\ (rest \/ kept[Precision] = 1)
        inc == IncBits(kept)
    IN  IF ~up THEN [m |-> kept, e |-> e + drop]
        ELSE IF Len(inc) = Precision THEN [m |-> inc, e |-> e + drop]
        ELSE [m |-> Front(inc), e |-> e + drop + 1]

\* the remainder of r * 2^n by d: what long division leaves after n bits
QuotRem(r, d, n) == (r * Pow2Mod(n, d)) % d

\* the next n bits of the binary expansion of r / d, for 0 <= r < d
QuotBits(r, d, n) == [i \in 1..n |-> (2 * QuotRem(r, d, i - 1)) \div d]

RECURSIVE Shift(_, _, _)
\* the least s with a * 2^s >= d
Shift(a, d, s) == IF a >= d THEN s ELSE Shift(2 * a, d, s + 1)

\* the double a / d for integers 0 <= a <= d, d > 0  (split / 100)
FloatDiv(a, d) ==
    IF a = 0 THEN FloatZero
    ELSE LET s == Shift(a, d, 0)
             r == a * Pow2(s) - d     \* the quotient's leading bit is 1
         IN  RoundToDouble(<<1>> \o QuotBits(r, d, Precision),
                           QuotRem(r, d, Precision) # 0,
                           0 - Precision - s)

\* bits as 13-bit limbs, most significant first (bits is padded in front)
Limbs(bits) ==
    LET n == (Len(bits) + 12) \div 13
        padded == [i \in 1..(13 * n - Len(bits)) |-> 0] \o bits
    IN  [k \in 1..n |-> BitsToInt(SubSeq(padded, 13 * (k - 1) + 1, 13 * k))]

RECURSIVE MulLimbs(_, _, _)
\* the limbs of limbs * n + carry, one limb longer
MulLimbs(limbs, n, carry) ==
    IF limbs = <<>> THEN <<carry>>
    ELSE LET v == Last(limbs) * n + carry
         IN  MulLimbs(Front(limbs), n, v \div 8192) \o <<v % 8192>>

RECURSIVE LimbBits(_)
LimbBits(limbs) ==
    IF limbs = <<>> THEN <<>>
    ELSE FixedBits(limbs[1], 13) \o LimbBits(Tail(limbs))

\* the bits of bits * n, without leading zeros, for 0 < n < 8192
MulBits(bits, n) == StripZeros(LimbBits(MulLimbs(Limbs(bits), n, 0)))

\* the double n * q for an integer n >= 0 (converted exactly) and a double q
FloatMulInt(n, q) ==
    IF n = 0 \/ IsZero(q) THEN FloatZero
    ELSE RoundToDouble(MulBits(q.m, n), FALSE, q.e)

\* math.floor of a double that is below 2^31
FloatFloor(q) ==
    IF IsZero(q) THEN 0
    ELSE IF q.e >= 0 THEN BitsToInt(q.m) * Pow2(q.e)
    ELSE IF 0 - q.e >= Precision THEN 0
    ELSE BitsToInt(SubSeq(q.m, 1, Precision + q.e))

\* line 39
splitting_point(n, sp) == FloatFloor(FloatMulInt(n, FloatDiv(sp, 100)))


(***************************************************************************)
(* get_confusion_matrix(predictions, y), lines 215-235.                    *)
(***************************************************************************)
\* Outcome with the false positives and the false negatives exchanged
Outcome_swapped(pred, label) ==
    IF pred = 1 /\ label = 1 THEN 1
    ELSE IF pred = 0 /\ label = 0 THEN 2
    ELSE IF pred = 1 /\ label = 0 THEN 4
    ELSE IF pred = 0 /\ label = 1 THEN 3
    ELSE 0

\* lines 227-234: the slot of the matrix a pair (prediction, label) counts in
Outcome(pred, label) ==
    IF pred = 1 /\ label = 1 THEN 1          \* true positive
    ELSE IF pred = 0 /\ label = 0 THEN 2     \* true negative
    ELSE IF pred = 1 /\ label = 0 THEN 3     \* false positive
    ELSE IF pred = 0 /\ label = 1 THEN 4     \* false negative
    ELSE 0

\* Does the if/elif chain of lines 227-234 read y[i]?  "a and b" reads b only
\* when a holds, and a branch is tried only when the ones before it failed.
ReadsLabel(pred) == pred = 1 \/ pred = 0

\* lines 226-234: one pass of "for i in range(len(predictions))"
ConfusionStep ==
    /\ cm_pc = "loop"
    /\ cm_i < Len(predictions)
    /\ LET pred == predictions[cm_i + 1]
       IN  IF ReadsLabel(pred) /\ cm_i >= Len(y)
           THEN \* y[i] raises IndexError
                /\ cm_pc' = "raised"
                /\ UNCHANGED <<cm_i, matrix>>
           ELSE LET slot == Outcome(pred, y[cm_i + 1])
                IN  /\ matrix' = IF slot = 0 THEN matrix
                                 ELSE [matrix EXCEPT ![slot] = @ + 1]
                    /\ cm_i' = cm_i + 1
                    /\ cm_pc' = "loop"
    /\ UNCHANGED <<predictions, y, pm_pc, accuracy, precision, recall,
                   specificity, f1, pm_out>>
    /\ UNCHANGED notEval

\* line 235
ConfusionReturn ==
    /\ cm_pc = "loop"
    /\ cm_i = Len(predictions)
    /\ cm_pc' = "returned"
    /\ pm_pc' = "accuracy"      \* the matrix goes to print_performance_metrics
    /\ UNCHANGED <<predictions, y, cm_i, matrix, accuracy, precision, recall,
                   specificity, f1, pm_out>>
    /\ UNCHANGED notEval

(***************************************************************************)
(* print_performance_metrics(m), lines 238-270.  m is the list of Python   *)
(* ints that get_confusion_matrix built, so "/" is Python's division: it   *)
(* raises ZeroDivisionError on a zero divisor, for ints and floats alike.  *)
(* A number is the pair <<numerator, denominator>> of its exact value; the *)
(* doubles computed from counts this small are zero exactly when the exact *)
(* value is.  A pair with denominator 0 stands for a non-finite value.     *)
(***************************************************************************)
Num(n) == <<n, 1>>
Unset == <<0, 1>>
RatMul(u, v) == <<u[1] * v[1], u[2] * v[2]>>
RatAdd(u, v) == <<u[1] * v[2] + v[1] * u[2], u[2] * v[2]>>
IsFinite(u) == u[2] # 0

\* u / v as numpy's float64 has it: a zero divisor gives a non-finite value
PyDiv_nonfinite(u, v) ==
    IF v[1] = 0 THEN [raised |-> FALSE, v |-> <<u[1], 0>>]
    ELSE [raised |-> FALSE, v |-> <<u[1] * v[2], u[2] * v[1]>>]

\* Python's u / v
PyDiv(u, v) ==
    IF v[1] = 0 THEN [raised |-> TRUE, v |-> Unset]
    ELSE [raised |-> FALSE, v |-> <<u[1] * v[2], u[2] * v[1]>>]

\* lines 245-249, each as the value it assigns (or the error it raises)
AccuracyOf(m) == PyDiv(Num(m[1] + m[2]), Num(m[1] + m[2] + m[3] + m[4]))
PrecisionOf(m) == PyDiv(Num(m[1]), Num(m[1] + m[3]))
RecallOf(m) == PyDiv(Num(m[1]), Num(m[1] + m[4]))
SpecificityOf(m) == PyDiv(Num(m[2]), Num(m[2] + m[3]))
F1Of(p, r) ==
    LET q == PyDiv(RatMul(p, r), RatAdd(p, r))
    IN  [raised |-> q.raised, v |-> RatMul(Num(2), q.v)]

\* one of the lines 245-249: the metric is assigned, or the call ends there
MetricLine(line, res, next) ==
    /\ pm_pc = line
    /\ pm_pc' = IF res.raised THEN "raised" ELSE next
    /\ accuracy' = IF line = "accuracy" /\ ~res.raised THEN res.v ELSE accuracy
    /\ precision' = IF line = "precision" /\ ~res.raised THEN res.v ELSE precision
    /\ recall' = IF line = "recall" /\ ~res.raised THEN res.v ELSE recall
    /\ specificity' = IF line = "specificity" /\ ~res.raised THEN res.v
                      ELSE specificity
    /\ f1' = IF line = "f1" /\ ~res.raised THEN res.v ELSE f1
    /\ UNCHANGED <<cm_pc, predictions, y, cm_i, matrix, pm_out>>
    /\ UNCHANGED notEval

ComputeAccuracy == MetricLine("accuracy", AccuracyOf(matrix), "precision")
ComputePrecision == MetricLine("precision", PrecisionOf(matrix), "recall")
ComputeRecall == MetricLine("recall", RecallOf(matrix), "specificity")
ComputeSpecificity == MetricLine("specificity", SpecificityOf(matrix), "f1")
ComputeF1 == MetricLine("f1", F1Of(precision, recall), "print")

\* lines 250-270: the matrix and the five metrics are printed
PrintMetrics ==
    /\ pm_pc = "print"
    /\ pm_out' = <<matrix, accuracy, precision, recall, specificity, f1>>
    /\ pm_pc' = "returned"
    /\ UNCHANGED <<cm_pc, predictions, y, cm_i, matrix, accuracy, precision,
                   recall, specificity, f1>>
    /\ UNCHANGED notEval

EvalIdle ==
    /\ cm_pc = "idle" /\ predictions = <<>> /\ y = <<>> /\ cm_i = 0
    /\ matrix = <<0, 0, 0, 0>> /\ pm_pc = "idle"
    /\ accuracy = Unset /\ precision = Unset /\ recall = Unset
    /\ specificity = Unset /\ f1 = Unset /\ pm_out = <<>>

\* line 224, for one pair of arguments
EvalStart(p, labels) ==
    /\ cm_pc = "loop" /\ predictions = p /\ y = labels /\ cm_i = 0
    /\ matrix = <<0, 0, 0, 0>> /\ pm_pc = "idle"
    /\ accuracy = Unset /\ precision = Unset /\ recall = Unset
    /\ specificity = Unset /\ f1 = Unset /\ pm_out = <<>>

(***************************************************************************)
(* Real numbers of the training code are exact rationals <<n, d>>, d > 0,  *)
(* in lowest terms.                                                        *)
(***************************************************************************)
Abs(a) == IF a < 0 THEN 0 - a ELSE a

RECURSIVE Gcd(_, _)
Gcd(a, b) == IF b = 0 THEN a ELSE Gcd(b, a % b)

Rat(n, d) ==
    LET g == Gcd(Abs(n), Abs(d))
        sgn == IF d < 0 THEN 0 - 1 ELSE 1
    IN  <<sgn * (n \div g), sgn * (d \div g)>>

RAdd(u, v) == Rat(u[1] * v[2] + v[1] * u[2], u[2] * v[2])
RSub(u, v) == Rat(u[1] * v[2] - v[1] * u[2], u[2] * v[2])
RMul(u, v) == Rat(u[1] * v[1], u[2] * v[2])
RLess(u, v) == u[1] * v[2] < v[1] * u[2]

RECURSIVE RSum(_)
RSum(s) == IF s = <<>> THEN <<0, 1>> ELSE RAdd(s[1], RSum(Tail(s)))

\* the dot product of two vectors of rationals
Dot(u, v) == RSum([k \in 1..Len(u) |-> RMul(u[k], v[k])])

(***************************************************************************)
(* 1 / (1 + exp(-z)), lines 124 and 204.  exp has no exact value to        *)
(* compute with, so the logistic function is taken at the resolution of a  *)
(* quarter: 0, 1/4, 1/2, 3/4 or 1, the breakpoints -2, -1/2, 1/2 and 2     *)
(* being the logits of 1/8, 3/8, 5/8 and 7/8 rounded.  It is monotone, 1/2 *)
(* at 0 and saturates at both ends, as the double does.                    *)
(***************************************************************************)
Logistic(z) ==
    IF RLess(z, <<0 - 2, 1>>) THEN <<0, 1>>
    ELSE IF RLess(z, <<0 - 1, 2>>) THEN <<1, 4>>
    ELSE IF RLess(z, <<1, 2>>) THEN <<1, 2>>
    ELSE IF RLess(z, <<2, 1>>) THEN <<3, 4>>
    ELSE <<1, 1>>

\* lines 114-125; x is the transposed matrix: x[j][i] is feature j of row i
eval_hypothesis_function_multivariate(wv, x) ==
    [i \in 1..Len(x[1]) |-> Logistic(Dot([j \in 1..Len(x) |-> x[j][i]], wv))]

\* lines 128-143
compute_gradient_of_cost_function_multivariate(h, x, labels, n) ==
    LET error == [i \in 1..Len(h) |-> RSub(h[i], labels[i])]
    IN  [j \in 1..Len(x) |-> RMul(Dot(x[j], error), <<1, n>>)]

\* lines 146-156.  The norm is a square root: it is held as its square.
compute_L2_norm_multivariate(g) == Dot(g, g)

\* the test with <= in place of <
BelowThreshold_inclusive(l2sq, threshold) ==
    /\ ~RLess(threshold, <<0, 1>>)
    /\ ~RLess(RMul(threshold, threshold), l2sq)

\* line 186: l2 < stopping_criteria, l2 given by its square
BelowThreshold(l2sq, threshold) ==
    /\ RLess(<<0, 1>>, threshold)
    /\ RLess(l2sq, RMul(threshold, threshold))

\* line 185, the right-hand side: w - learning_rate * gradient
UpdatedWeights(wv, rate, g) == [j \in 1..Len(wv) |-> RSub(wv[j], RMul(rate, g[j]))]

\* lines 172-174: a column of ones in front of x, then the transpose
AugmentTranspose(x) ==
    [j \in 1..(Len(x[1]) + 1) |->
        [i \in 1..Len(x) |-> IF j = 1 THEN <<1, 1>> ELSE x[i][j - 1]]]

NoVector == <<>>

\* lines 171-176
GdSetup ==
    /\ gd_pc = "call"
    /\ gd_x' = AugmentTranspose(gd_x)
    /\ gd_pc' = "iterating"
    /\ UNCHANGED <<gd_y, heap, caller_w, w, learning_rate, stopping_criteria,
                   hypothesis, gradient, l2, gd_iter, gd_ret>>
    /\ UNCHANGED notGd

\* lines 178-187: one pass of the while loop.  Line 185 builds a new array
\* and binds the local name w to it; the array w was bound to is dropped
\* unless it is the caller's.
GdIterate ==
    /\ gd_pc = "iterating"
    /\ gd_iter < MaxIter
    /\ LET h == eval_hypothesis_function_multivariate(heap[w], gd_x)
           g == compute_gradient_of_cost_function_multivariate(
                    h, gd_x, gd_y, Len(gd_y))
           norm == compute_L2_norm_multivariate(g)
           fresh == gd_iter + 2
           kept == [o \in {caller_w} |-> heap[o]]
       IN  /\ hypothesis' = h
           /\ gradient' = g
           /\ l2' = norm
           /\ heap' = (fresh :> UpdatedWeights(heap[w], learning_rate, g)) @@ kept
           /\ w' = fresh
           /\ IF BelowThreshold(norm, stopping_criteria)
              THEN gd_pc' = "converged" /\ gd_ret' = fresh
              ELSE gd_pc' = "iterating" /\ gd_ret' = gd_ret
    /\ gd_iter' = gd_iter + 1
    /\ UNCHANGED <<gd_x, gd_y, caller_w, learning_rate, stopping_criteria>>
    /\ UNCHANGED notGd

GdIdle ==
    /\ gd_pc = "idle" /\ gd_x = <<>> /\ gd_y = <<>>
    /\ heap = (1 :> NoVector) /\ caller_w = 1 /\ w = 1
    /\ learning_rate = <<0, 1>> /\ stopping_criteria = <<0, 1>>
    /\ hypothesis = NoVector /\ gradient = NoVector /\ l2 = <<0, 1>>
    /\ gd_iter = 0 /\ gd_ret = 0

\* the call gradient_descent(x, labels, w0, rate, threshold)
GdStart(x, labels, w0, rate, threshold) ==
    /\ gd_pc = "call" /\ gd_x = x /\ gd_y = labels
    /\ heap = (1 :> w0) /\ caller_w = 1 /\ w = 1
    /\ learning_rate = rate /\ stopping_criteria = threshold
    /\ hypothesis = NoVector /\ gradient = NoVector /\ l2 = <<0, 1>>
    /\ gd_iter = 0 /\ gd_ret = 0

(***************************************************************************)
(* scale_data(data, flag, mean=0, std=0), lines 61-111.                    *)
(* An argument is [repr, v]: repr is "ndarray", "list" or "omitted" (the   *)
(* default, the int 0), v the vector it holds.  A mean is a vector of      *)
(* rationals.  A std is a square root, so a vector of stds is held as the  *)
(* vector of their squares.  A scaled entry (x - mean) / std is held as    *)
(* its sign and its square; a square with denominator 0 is the non-finite  *)
(* value numpy's division by a zero std gives.                             *)
(***************************************************************************)
Column(m, j) == [i \in 1..Len(m) |-> m[i][j]]

\* line 80: np.mean(data, axis=0)
ColumnMeans(m) ==
    [j \in 1..Len(m[1]) |-> RMul(RSum(Column(m, j)), <<1, Len(m)>>)]

\* line 81: np.std(data, axis=0), the population std, as its square
ColumnStds(m) ==
    LET mu == ColumnMeans(m)
        sq(i, j) == RMul(RSub(m[i][j], mu[j]), RSub(m[i][j], mu[j]))
    IN  [j \in 1..Len(m[1]) |->
            RMul(RSum([i \in 1..Len(m) |-> sq(i, j)]), <<1, Len(m)>>)]

Sign(u) == IF u[1] > 0 THEN 1 ELSE IF u[1] < 0 THEN 0 - 1 ELSE 0

\* lines 87 and 106: (data[i][j] - mean[j]) / std[j]
ScaledEntry(x, mu, stdsq) ==
    LET diff == RSub(x, mu)
        dsq == RMul(diff, diff)
    IN  [sgn |-> Sign(diff),
         sq |-> IF stdsq[1] = 0 THEN <<dsq[1], 0>>
                ELSE Rat(dsq[1] * stdsq[2], dsq[2] * stdsq[1])]

\* lines 84-88 and 103-107
ScaleRows(m, mu, stdsq) ==
    [i \in 1..Len(m) |->
        [j \in 1..Len(m[1]) |-> ScaledEntry(m[i][j], mu[j], stdsq[j])]]

\* line 76: isinstance(..., np.ndarray) on both arguments
TakesFitBranch(mean, std) == mean.repr # "ndarray" /\ std.repr # "ndarray"

NoMatrix == <<>>
Omitted == [repr |-> "omitted", v |-> <<>>]
NoResult == [raised |-> FALSE, recomputed |-> FALSE, scaled_data |-> NoMatrix,
             mean |-> <<>>, std |-> <<>>]

\* the whole function: what the call returns, or that it raised
scale_data(m, mean, std) ==
    IF TakesFitBranch(mean, std)
    THEN \* lines 77-100: the statistics come from the data being scaled
         [raised |-> FALSE, recomputed |-> TRUE,
          scaled_data |-> ScaleRows(m, ColumnMeans(m), ColumnStds(m)),
          mean |-> ColumnMeans(m), std |-> ColumnStds(m)]
    ELSE IF mean.repr = "omitted" \/ std.repr = "omitted"
    THEN \* line 106 subscripts the int 0: TypeError
         [raised |-> TRUE, recomputed |-> FALSE, scaled_data |-> NoMatrix,
          mean |-> <<>>, std |-> <<>>]
    ELSE \* lines 103-111
         [raised |-> FALSE, recomputed |-> FALSE,
          scaled_data |-> ScaleRows(m, mean.v, std.v),
          mean |-> <<>>, std |-> <<>>]

\* the fitting call scale_data(train_data, 0)
ScaleFit ==
    /\ sc_pc = "fit"
    /\ fit_result' = scale_data(train_data, Omitted, Omitted)
    /\ sc_pc' = "transform"
    /\ UNCHANGED <<train_data, test_data, mean_arg, std_arg, transform_result>>
    /\ UNCHANGED notScale

\* the transforming call scale_data(test_data, 0, mean, std): the caller
\* passes the mean and the std the fitting call returned, each as the
\* ndarray it got, as a plain list of the same numbers, or not at all
ScaleTransform(mrepr, srepr) ==
    /\ sc_pc = "transform"
    /\ mrepr # "omitted" \/ srepr # "omitted"
    /\ LET mean == IF mrepr = "omitted" THEN Omitted
                   ELSE [repr |-> mrepr, v |-> fit_result.mean]
           std == IF srepr = "omitted" THEN Omitted
                  ELSE [repr |-> srepr, v |-> fit_result.std]
       IN  /\ mean_arg' = mean
           /\ std_arg' = std
           /\ transform_result' = scale_data(test_data, mean, std)
    /\ sc_pc' = "done"
    /\ UNCHANGED <<train_data, fit_result, test_data>>
    /\ UNCHANGED notScale

ScaleIdle ==
    /\ sc_pc = "idle" /\ train_data = NoMatrix /\ fit_result = NoResult
    /\ test_data = NoMatrix /\ mean_arg = Omitted /\ std_arg = Omitted
    /\ transform_result = NoResult

ScaleStart(train, test) ==
    /\ sc_pc = "fit" /\ train_data = train /\ fit_result = NoResult
    /\ test_data = test /\ mean_arg = Omitted /\ std_arg = Omitted
    /\ transform_result = NoResult

(***************************************************************************)
(* predict(x, w), lines 191-212.                                           *)
(* The threshold of line 207 is decided by doubles next to 0.5, so the     *)
(* weights are taken as integer multiples of 2^-53 and the features as     *)
(* small integers: products and sums of these are exact doubles, and the   *)
(* score of a row is S * 2^-53 for the integer S the model computes.       *)
(* A probability is held as its side of 0.5: "below", "half" or "above".   *)
(***************************************************************************)
\* lines 201-204, the argument of exp for one row: w0 + sum of w[j] * x[j]
Score(row, wv) ==
    LET aug == <<1>> \o row
        RECURSIVE Acc(_)
        Acc(k) == IF k = 0 THEN 0 ELSE Acc(k - 1) + aug[k] * wv[k]
    IN  Acc(Len(aug))

\* line 204: the sides of 0.5 that 1 / (1 + exp(-S * 2^-53)) can come out
\* on.  exp is within one unit in the last place of the true value, the sum
\* and the quotient round to nearest even.  For |S| <= 1 exp rounds so that
\* the sum is 2.0 and the quotient exactly 0.5; for |S| >= 4 the quotient is
\* on the side of the sign of S; in between it depends on how the library's
\* exp rounds.
SigmoidSides(S) ==
    IF Abs(S) <= 1 THEN {"half"}
    ELSE IF S >= 4 THEN {"above"}
    ELSE IF S <= 0 - 4 THEN {"below"}
    ELSE IF S > 0 THEN {"half", "above"}
    ELSE {"half", "below"}

\* the threshold with > in place of >=
Threshold_strict(side) == IF side = "above" THEN 1 ELSE 0

\* lines 207-210: the class a probability is overwritten with
Threshold(side) == IF side = "half" \/ side = "above" THEN 1 ELSE 0

\* lines 201-204, for one outcome of the library's rounding
PredictCompute ==
    /\ pr_pc = "call"
    /\ \E p \in [1..Len(pr_x) -> {"below", "half", "above"}] :
          /\ \A i \in 1..Len(pr_x) : p[i] \in SigmoidSides(Score(pr_x[i], pr_w))
          /\ probabilities' = p
    /\ pr_pc' = "threshold"
    /\ UNCHANGED <<pr_x, pr_w, pr_i, pr_labels>>
    /\ UNCHANGED notPredict

\* lines 206-210: one pass of the loop
PredictThreshold ==
    /\ pr_pc = "threshold"
    /\ pr_i < Len(probabilities)
    /\ pr_labels' = Append(pr_labels, Threshold(probabilities[pr_i + 1]))
    /\ pr_i' = pr_i + 1
    /\ UNCHANGED <<pr_pc, pr_x, pr_w, probabilities>>
    /\ UNCHANGED notPredict

\* line 212
PredictReturn ==
    /\ pr_pc = "threshold"
    /\ pr_i = Len(probabilities)
    /\ pr_pc' = "returned"
    /\ UNCHANGED <<pr_x, pr_w, probabilities, pr_i, pr_labels>>
    /\ UNCHANGED notPredict

PredictIdle ==
    /\ pr_pc = "idle" /\ pr_x = <<>> /\ pr_w = <<>> /\ probabilities = <<>>
    /\ pr_i = 0 /\ pr_labels = <<>>

PredictStart(x, wv) ==
    /\ pr_pc = "call" /\ pr_x = x /\ pr_w = wv /\ probabilities = <<>>
    /\ pr_i = 0 /\ pr_labels = <<>>

(***************************************************************************)
(* load_data(file, includes_y, split, flag), lines 13-57.                  *)
(* The file has been parsed: file_rows is the two-dimensional array that   *)
(* np.genfromtxt returned for at least two data rows, and a row has at     *)
(* least two columns.                                                      *)
(***************************************************************************)
NoRows == <<>>

\* the columns [from, to] of every row: data[..., from-1:to] of numpy
Columns(rows, from, to) == [r \in 1..Len(rows) |-> SubSeq(rows[r], from, to)]

\* line 37: len(headers) - 1
number_x_columns(rows) == Len(rows[1]) - 1

\* lines 41-42
TrainingRows(rows, sp) == SliceTo(rows, sp)
\* the testing rows taken from one row too far
TestingRows_skip(rows, sp) == SliceFrom(rows, sp + 1)

\* lines 44-45
TestingRows(rows, sp) == SliceFrom(rows, sp)

\* lines 41 and 44: the feature columns of a subset
XColumns(rows, nx) == Columns(rows, 1, nx)
\* lines 42 and 45: the remaining column(s) of a subset
YColumns(rows, nx) == Columns(rows, nx + 1, IF rows = <<>> THEN 0 ELSE Len(rows[1]))

\* lines 33-55 up to the print loop, for one outcome p of np.random.shuffle
LoadDataCall(p) ==
    /\ ld_pc = "call"
    /\ includes_y = 1
    /\ LET shuffled == Permute(file_rows, p)
           nx == number_x_columns(shuffled)
           sp == splitting_point(Len(shuffled), split)
       IN  /\ data' = shuffled
           /\ x_training_data' = XColumns(TrainingRows(shuffled, sp), nx)
           /\ y_training_data' = YColumns(TrainingRows(shuffled, sp), nx)
           /\ x_testing_data' = XColumns(TestingRows(shuffled, sp), nx)
           /\ y_testing_data' = YColumns(TestingRows(shuffled, sp), nx)
    /\ ld_pc' = IF flag = 1 THEN "print" ELSE "returned"
    /\ UNCHANGED <<file_rows, split, flag, includes_y, ld_i, stdout>>
    /\ UNCHANGED notLoad

\* lines 56-57: the file holds no label column, the shuffled rows are returned
LoadDataNoY(p) ==
    /\ ld_pc = "call"
    /\ includes_y = 0
    /\ data' = Permute(file_rows, p)
    /\ ld_pc' = "returned"
    /\ UNCHANGED <<file_rows, split, flag, includes_y, x_training_data,
                   y_training_data, x_testing_data, y_testing_data, ld_i, stdout>>
    /\ UNCHANGED notLoad

\* lines 51-52: one pass of "for i in range(len(data))"; indexing a subset
\* past its end raises IndexError
PrintRow ==
    /\ ld_pc = "print"
    /\ ld_i < Len(data)
    /\ IF ld_i < Len(x_training_data)
       THEN /\ stdout' = Append(stdout, <<x_training_data[ld_i + 1],
                                          y_training_data[ld_i + 1]>>)
            /\ ld_i' = ld_i + 1
            /\ ld_pc' = "print"
       ELSE /\ ld_pc' = "raised"
            /\ UNCHANGED <<ld_i, stdout>>
    /\ UNCHANGED <<file_rows, split, flag, includes_y, data, x_training_data,
                   y_training_data, x_testing_data, y_testing_data>>
    /\ UNCHANGED notLoad

\* lines 53-55: the loop is over, the four arrays are returned
PrintDone ==
    /\ ld_pc = "print"
    /\ ld_i = Len(data)
    /\ ld_pc' = "returned"
    /\ UNCHANGED <<file_rows, split, flag, includes_y, data, x_training_data,
                   y_training_data, x_testing_data, y_testing_data, ld_i, stdout>>
    /\ UNCHANGED notLoad

LoadIdle ==
    /\ ld_pc = "idle" /\ file_rows = NoRows /\ split = 0 /\ flag = 0
    /\ includes_y = 0 /\ data = NoRows
    /\ x_training_data = NoRows /\ y_training_data = NoRows
    /\ x_testing_data = NoRows /\ y_testing_data = NoRows
    /\ ld_i = 0 /\ stdout = <<>>

LoadStart(rows, sp, fl, iy) ==
    /\ ld_pc = "call" /\ file_rows = rows /\ split = sp /\ flag = fl
    /\ includes_y = iy /\ data = NoRows
    /\ x_training_data = NoRows /\ y_training_data = NoRows
    /\ x_testing_data = NoRows /\ y_testing_data = NoRows
    /\ ld_i = 0 /\ stdout = <<>>

(***************************************************************************)
(* SpecCount: load_data on data sets of 2..MaxCountRows rows, every        *)
(* split of 0..100.  Only the sizes matter here: row i is <<i, i % 2>>,    *)
(* and the shuffle either keeps or reverses the order.                     *)
(***************************************************************************)
CountRows(n) == [i \in 1..n |-> <<i, i % 2>>]

InitCount ==
    /\ \E n \in 2..MaxCountRows : \E sp \in 0..100 :
           LoadStart(CountRows(n), sp, 0, 1)
    /\ EvalIdle /\ GdIdle /\ ScaleIdle /\ PredictIdle

NextCount ==
    \E p \in Reversals(Len(file_rows)) : LoadDataCall(p)

SpecCount == InitCount /\ [][NextCount]_vars

\* C1: a data set of N rows split at F has floor(N*F/100) training rows (the
\* exact integer floor) and N minus that count testing rows.
C1_ExactFloorCount ==
    ld_pc = "returned" =>
        /\ Len(x_training_data) = (Len(file_rows) * split) \div 100
        /\ Len(y_training_data) = Len(x_training_data)
        /\ Len(x_testing_data) = Len(file_rows) - Len(x_training_data)
        /\ Len(y_testing_data) = Len(x_testing_data)

(***************************************************************************)
(* SpecLoad: load_data on enumerated data sets of 2..MaxRows rows and 2 or *)
(* 3 columns, every outcome of the shuffle, printing on and off.           *)
(***************************************************************************)
ColumnCounts == {2, 3}
Splits == {0, 34, 50, 67, 100}

\* a row of c columns: feature j is 10*j + a, the last column is the label
MkRow(c, a, label) == [j \in 1..c |-> IF j = c THEN label ELSE 10 * j + a]
RowPool(c) == {MkRow(c, 1, 0), MkRow(c, 2, 1), MkRow(c, 2, 0)}
DataSets(c) == UNION {[1..n -> RowPool(c)] : n \in 2..MaxRows}

InitLoad ==
    \E c \in ColumnCounts : \E rows \in DataSets(c) : \E sp \in Splits :
        \E fl \in {0, 1} : \E iy \in {0, 1} :
            LoadStart(rows, sp, fl, iy) /\ EvalIdle /\ GdIdle /\ ScaleIdle /\ PredictIdle

NextLoad ==
    \/ \E p \in Perms(Len(file_rows)) : LoadDataCall(p)
    \/ \E p \in Perms(Len(file_rows)) : LoadDataNoY(p)
    \/ PrintRow
    \/ PrintDone

SpecLoad == InitLoad /\ [][NextLoad]_vars

\* what the claims call a row's features and its label
FeaturesOf(row) == SubSeq(row, 1, Len(row) - 1)
LabelOf(row) == <<row[Len(row)]>>

\* C9: the training and testing subsets partition one permutation of the
\* input rows: training is its first k rows and testing the rest, and each
\* returned row pairs the row's features with that row's final column.
C9_SplitPartitionsRows ==
    (includes_y = 1 /\ ld_pc # "call") =>
        LET n == Len(file_rows)
            k == Len(x_training_data)
        IN  /\ Len(y_training_data) = k
            /\ Len(x_testing_data) = n - k
            /\ Len(y_testing_data) = n - k
            /\ \E p \in Perms(n) : \A i \in 1..n :
                  IF i <= k
                  THEN /\ x_training_data[i] = FeaturesOf(file_rows[p[i]])
                       /\ y_training_data[i] = LabelOf(file_rows[p[i]])
                  ELSE /\ x_testing_data[i - k] = FeaturesOf(file_rows[p[i]])
                       /\ y_testing_data[i - k] = LabelOf(file_rows[p[i]])

\* a split strictly inside a data set whose order the shuffle changed
C9_Witness ==
    /\ includes_y = 1 /\ ld_pc = "returned"
    /\ Len(x_training_data) > 0 /\ Len(x_testing_data) > 0
    /\ data # file_rows
    /\ Len(file_rows[1]) = 3

\* C10: with flag = 1 the call prints every training row with its label and
\* returns; printing never makes the call fail.
C10_PrintingNeverFails ==
    (includes_y = 1 /\ flag = 1) =>
        /\ ld_pc # "raised"
        /\ ld_pc = "returned" =>
              stdout = [i \in 1..Len(x_training_data) |->
                           <<x_training_data[i], y_training_data[i]>>]

(***************************************************************************)
(* SpecEval: get_confusion_matrix on every pair of 0/1 sequences of up to  *)
(* MaxLen entries, then print_performance_metrics on the matrix returned.  *)
(***************************************************************************)
BitSeqs == UNION {[1..n -> {0, 1}] : n \in 0..MaxLen}

InitEval ==
    /\ \E p \in BitSeqs : \E labels \in BitSeqs : EvalStart(p, labels)
    /\ LoadIdle /\ GdIdle /\ ScaleIdle /\ PredictIdle

NextEval ==
    \/ ConfusionStep
    \/ ConfusionReturn
    \/ ComputeAccuracy
    \/ ComputePrecision
    \/ ComputeRecall
    \/ ComputeSpecificity
    \/ ComputeF1
    \/ PrintMetrics

SpecEval == InitEval /\ [][NextEval]_vars

\* the number of positions where the prediction is a and the label is b
CountPairs(a, b) ==
    Cardinality({i \in 1..Len(predictions) : predictions[i] = a /\ y[i] = b})

\* C2: for equal-length 0/1 sequences the matrix returned is [tp, tn, fp, fn]
\* with tp = #(1,1), tn = #(0,0), fp = #(1,0), fn = #(0,1), the four summing
\* to the number of predictions; [1,0,1,0] against [1,0,0,1] gives 1,1,1,1.
C2_ConfusionMatrixCounts ==
    (Len(predictions) = Len(y) /\ cm_pc # "loop" /\ cm_pc # "idle") =>
        /\ cm_pc = "returned"
        /\ matrix = <<CountPairs(1, 1), CountPairs(0, 0),
                      CountPairs(1, 0), CountPairs(0, 1)>>
        /\ matrix[1] + matrix[2] + matrix[3] + matrix[4] = Len(predictions)
        /\ (predictions = <<1, 0, 1, 0>> /\ y = <<1, 0, 0, 1>>)
               => matrix = <<1, 1, 1, 1>>

C2_Witness ==
    /\ cm_pc = "returned"
    /\ predictions = <<1, 0, 1, 0>> /\ y = <<1, 0, 0, 1>>
    /\ matrix = <<1, 1, 1, 1>>

\* the zero denominators the claim lists, on a matrix m
ZeroDenominator(m) ==
    \/ m[1] + m[2] + m[3] + m[4] = 0
    \/ m[1] + m[3] = 0
    \/ m[1] + m[4] = 0
    \/ m[2] + m[3] = 0
    \/ m[1] = 0             \* precision + recall = 0

PmDone == pm_pc \in {"returned", "raised"}

\* C3 as claimed: with a zero denominator the call completes normally and
\* reports a non-finite value for the metric.
C3_ZeroDenominatorReported ==
    (PmDone /\ ZeroDenominator(matrix)) =>
        /\ pm_pc = "returned"
        /\ \E k \in 2..6 : ~IsFinite(pm_out[k])

\* C3 as the code has it: with a zero denominator the call raises
\* ZeroDivisionError at the first such division and prints nothing, so no
\* value at all (non-finite or default) is reported for any metric; with no
\* zero denominator it prints the matrix and five finite metrics.
C3_ZeroDenominatorRaises ==
    PmDone =>
        /\ ZeroDenominator(matrix) <=> pm_pc = "raised"
        /\ pm_pc = "raised" => pm_out = <<>>
        /\ pm_pc = "returned" =>
              /\ pm_out[1] = matrix
              /\ \A k \in 2..6 : IsFinite(pm_out[k])

\* a matrix whose only zero denominator is precision + recall
C3_Witness ==
    /\ pm_pc = "raised"
    /\ matrix[1] = 0 /\ matrix[3] > 0 /\ matrix[4] > 0 /\ matrix[2] > 0
    /\ specificity # Unset

\* C4: with predictions and labels of different lengths the call fails and
\* returns no matrix.
C4_LengthMismatchFails ==
    (Len(predictions) # Len(y) /\ cm_pc # "loop" /\ cm_pc # "idle") =>
        cm_pc = "raised"

(***************************************************************************)
(* SpecGd: gradient_descent on training sets of 1..MaxTrainRows rows of    *)
(* one feature, from several initial weights, learning rates and stopping  *)
(* criteria (zero and a negative one among them).                          *)
(***************************************************************************)
FeatureValues == {<<0 - 1, 1>>, <<1, 1>>}
LabelValues == {<<0, 1>>, <<1, 1>>}
InitialWeights == {<< <<0, 1>>, <<0, 1>> >>, << <<1, 1>>, <<0 - 2, 1>> >>}
LearningRates == {<<1, 1>>, <<1, 2>>}
StoppingCriteria == {<<0 - 1, 1>>, <<0, 1>>, <<1, 4>>, <<1, 2>>}

InitGd ==
    /\ \E n \in 1..MaxTrainRows :
         \E x \in [1..n -> [1..1 -> FeatureValues]] :
           \E labels \in [1..n -> LabelValues] :
             \E w0 \in InitialWeights : \E rate \in LearningRates :
               \E threshold \in StoppingCriteria :
                 GdStart(x, labels, w0, rate, threshold)
    /\ LoadIdle /\ EvalIdle /\ ScaleIdle /\ PredictIdle

NextGd ==
    \/ GdSetup
    \/ GdIterate

SpecGd == InitGd /\ [][NextGd]_vars

\* C7: the loop is left only through the test norm < threshold.  A pass of
\* the loop returns exactly when the gradient it computed has an L2 norm
\* strictly below the stopping criterion, the weights returned are the ones
\* that pass's update produced, and a pass that computes no such norm stays
\* in the loop (so with a threshold <= 0 the call never returns); once
\* returned, nothing runs.
C7_SoleExitIsNormTest ==
    [][ /\ gd_pc = "call" => gd_pc' = "iterating"
        /\ gd_pc = "converged" => UNCHANGED gdVars
        /\ gd_pc = "iterating" =>
             LET below == /\ stopping_criteria[1] > 0
                          /\ RLess(Dot(gradient', gradient'),
                                   <<stopping_criteria[1] * stopping_criteria[1],
                                     stopping_criteria[2] * stopping_criteria[2]>>)
             IN  /\ gd_pc' = (IF below THEN "converged" ELSE "iterating")
                 /\ \A j \in 1..Len(heap[w]) :
                       heap'[w'][j] = RSub(heap[w][j],
                                           RMul(learning_rate, gradient'[j]))
                 /\ gd_pc' = "converged" => gd_ret' = w'
                 /\ gd_pc' = "iterating" => gd_ret' = 0
      ]_vars

\* a return after more than one pass, by a norm that is not zero
C7_Witness ==
    /\ gd_pc = "converged" /\ gd_iter >= 2
    /\ l2 # <<0, 1>>

\* C8: the caller's weight object is updated in place: after every
\* iteration it holds the current weights, and after the return it holds
\* the weights returned.
C8_CallerWeightsUpdatedInPlace ==
    /\ gd_iter > 0 => heap[caller_w] = heap[w]
    /\ gd_pc = "converged" => heap[caller_w] = heap[gd_ret]

(***************************************************************************)
(* SpecScale: scale_data fits a training matrix of 1..MaxScaleRows rows    *)
(* and 1 or 2 columns, then transforms a copy of it, or another matrix,    *)
(* with the statistics the fit returned, passed in every representation.   *)
(***************************************************************************)
ScaleValues == {<<1, 1>>, <<2, 1>>, <<4, 1>>}
ScaleColumns == {1, 2}
Representations == {"ndarray", "list", "omitted"}
Matrices(c) == UNION {[1..n -> [1..c -> ScaleValues]] : n \in 1..MaxScaleRows}

\* another matrix of the same shape: every entry one more
Shifted(m) == [i \in 1..Len(m) |-> [j \in 1..Len(m[1]) |-> RAdd(m[i][j], <<1, 1>>)]]

InitScale ==
    /\ \E c \in ScaleColumns : \E train \in Matrices(c) :
          \E test \in {train, Shifted(train)} : ScaleStart(train, test)
    /\ LoadIdle /\ EvalIdle /\ GdIdle /\ PredictIdle

NextScale ==
    \/ ScaleFit
    \/ \E mrepr \in Representations : \E srepr \in Representations :
          ScaleTransform(mrepr, srepr)

SpecScale == InitScale /\ [][NextScale]_vars

\* C5: when the caller supplies a mean and a std, in whatever representation
\* (or only one of the two), the statistics are never recomputed from the
\* data being scaled; with both supplied every output entry is
\* (value - mean[j]) / std[j] for the supplied mean and std, so a copy of
\* the training data comes out as the fit's output.
C5_TransformUsesSuppliedStatistics ==
    sc_pc = "done" =>
        /\ ~transform_result.recomputed
        /\ (mean_arg.repr # "omitted" /\ std_arg.repr # "omitted") =>
              /\ ~transform_result.raised
              /\ transform_result.scaled_data =
                    [i \in 1..Len(test_data) |->
                        [j \in 1..Len(test_data[1]) |->
                            ScaledEntry(test_data[i][j], mean_arg.v[j],
                                        std_arg.v[j])]]
              /\ test_data = train_data =>
                    transform_result.scaled_data = fit_result.scaled_data

(***************************************************************************)
(* SpecPredict: predict on 1..MaxTestRows rows of one feature.             *)
(***************************************************************************)
WeightValues == {0 - 2, 0 - 1, 0, 1, 2}
TestValues == {0 - 2, 0 - 1, 0, 1, 2}

InitPredict ==
    /\ \E n \in 1..MaxTestRows : \E x \in [1..n -> [1..1 -> TestValues]] :
          \E wv \in [1..2 -> WeightValues] : PredictStart(x, wv)
    /\ LoadIdle /\ EvalIdle /\ GdIdle /\ ScaleIdle

NextPredict ==
    \/ PredictCompute
    \/ PredictThreshold
    \/ PredictReturn

SpecPredict == InitPredict /\ [][NextPredict]_vars

\* the score of row i in units of 2^-53, written out: w0 + w1 * x1
ScoreOfRow(i) == pr_w[1] + pr_w[2] * pr_x[i][1]

\* C6 as claimed: one label per row, 1 exactly when the score is >= 0.
C6_LabelIsSignOfScore ==
    pr_pc = "returned" =>
        /\ Len(pr_labels) = Len(pr_x)
        /\ \A i \in 1..Len(pr_x) :
              pr_labels[i] = (IF ScoreOfRow(i) >= 0 THEN 1 ELSE 0)

\* C6 as the code has it: one label per row, 1 exactly when the computed
\* probability is >= 0.5.  That is so for every score >= 0 (all rows, when
\* the weights are all zero), and it is not so for a score <= -2^-51; but a
\* negative score as small as -2^-53 has the computed probability 0.5 and
\* the label 1.
C6_LabelIsThresholdOfProbability ==
    pr_pc = "returned" =>
        /\ Len(pr_labels) = Len(pr_x)
        /\ \A i \in 1..Len(pr_x) :
              /\ pr_labels[i] = 1 <=> probabilities[i] \in {"half", "above"}
              /\ pr_labels[i] = 0 <=> probabilities[i] = "below"
              /\ ScoreOfRow(i) >= 0 => pr_labels[i] = 1
              /\ ScoreOfRow(i) <= 0 - 4 => pr_labels[i] = 0
              /\ ScoreOfRow(i) = 0 - 1 => pr_labels[i] = 1
        /\ (\A j \in 1..Len(pr_w) : pr_w[j] = 0) =>
              \A i \in 1..Len(pr_x) : pr_labels[i] = 1

\* all-zero weights on two rows, both classified 1
C6_Witness ==
    /\ pr_pc = "returned"
    /\ pr_w = <<0, 0>> /\ Len(pr_x) = 2 /\ pr_labels = <<1, 1>>

=============================================================================
